---- MODULE Spec2Model ----
(***************************************************************************)
(* Model of queries.js: runQueries opens one MongoClient, issues a fixed   *)
(* sequence of 17 operations against the collection "books", logs each     *)
(* result, and closes the client in a finally block.                       *)
(*                                                                         *)
(* The collection is a sequence of documents in natural order.  Prices are *)
(* in cents (15.99 is 1599).  Strings that the program only compares for   *)
(* equality are TLA+ strings; the decade key, which the database builds    *)
(* with $toString/$concat and orders as a string, is a sequence of         *)
(* character codes.                                                        *)
(***************************************************************************)
EXTENDS Integers, Sequences, FiniteSets

VARIABLES pc, next, docs, indexes, docs0, indexes0, calls, log, res, err, hist

vars == <<pc, next, docs, indexes, docs0, indexes0, calls, log, res, err, hist>>

----------------------------------------------------------------------------
(* Bounds of the model *)

MaxDocs == 12
MaxRuns == 2

----------------------------------------------------------------------------
(* Literals of the script *)

genre == "Fiction"
year == 1950
author == "George Orwell"
titleToUpdate == "1984"
newPrice == 1599
titleToDelete == "Animal Farm"
stockYear == 2010
pageSize == 5
pageNumber == 2
explainYear == 1949
decadeWidth == 10

TitleIndex == <<<<"title", 1>>>>
CompoundIndex == <<<<"author", 1>>, <<"published_year", -1>>>>

----------------------------------------------------------------------------
(* Documents the collection may hold *)

Book(id, t, a, g, y, p, s) ==
  [_id |-> id, title |-> t, author |-> a, genre |-> g,
   published_year |-> y, price |-> p, in_stock |-> s]

Catalog ==
  << Book(1,  "1984",                  "George Orwell",       "Fiction",   1949, 1000, TRUE),
     Book(2,  "Animal Farm",           "George Orwell",       "Fiction",   1945,  800, TRUE),
     Book(3,  "The Great Gatsby",      "F. Scott Fitzgerald", "Fiction",   1925,  999, TRUE),
     Book(4,  "Brave New World",       "Aldous Huxley",       "Dystopian", 1932, 1150, FALSE),
     Book(5,  "The Hobbit",            "J.R.R. Tolkien",      "Fantasy",   1937, 1499, TRUE),
     Book(6,  "The Midnight Library",  "Matt Haig",           "Fiction",   2020, 1599, TRUE),
     Book(7,  "Pride and Prejudice",   "Jane Austen",         "Romance",   1813,  799, TRUE),
     Book(8,  "To Kill a Mockingbird", "Harper Lee",          "Fiction",   1960, 1299, TRUE),
     Book(9,  "The Lord of the Rings", "J.R.R. Tolkien",      "Fantasy",   1954, 1999, TRUE),
     Book(10, "Beowulf",               "Anonymous",           "Poetry",     975,  850, FALSE),
     Book(11, "Project Hail Mary",     "Andy Weir",           "Dystopian", 2021, 1850, FALSE),
     Book(12, "Homage to Catalonia",   "George Orwell",       "Memoir",    1938, 1100, TRUE),
     Book(13, "The Old Man and the Sea", "Ernest Hemingway",  "Fiction",   1950, 1050, TRUE),
     Book(14, "1984",                  "George Orwell",       "Fiction",   1949, 1599, TRUE),
     Book(15, "Animal Farm",           "George Orwell",       "Fiction",   1945,  950, FALSE) >>

(* the collection holding n catalogue entries from lo on, cyclically *)
Window(lo, n) ==
  [i \in 1..n |-> Catalog[((lo + i - 2) % Len(Catalog)) + 1]]

Collections ==
  {Window(lo, n) : lo \in 1..Len(Catalog), n \in 0..MaxDocs}

IndexSets == SUBSET {TitleIndex, CompoundIndex}

----------------------------------------------------------------------------
(* Helpers *)

Min(S) == CHOOSE x \in S : \A y \in S : x <= y

Remove(s, i) == SubSeq(s, 1, i - 1) \o SubSeq(s, i + 1, Len(s))

Range(s) == {s[i] : i \in 1..Len(s)}

(* every ordering of the set S that is ascending in key; elements with the
   same key may come in any order *)
RECURSIVE AllSorted(_, _)
AllSorted(S, key) ==
  IF S = {} THEN {<<>>}
  ELSE UNION {{<<x>> \o t : t \in AllSorted(S \ {x}, key)} :
                x \in {y \in S : \A z \in S : key[y] <= key[z]}}

----------------------------------------------------------------------------
(* The operations, as functions of the collection *)

(* 1. find({ genre }) *)
FindByGenre(ds) == SelectSeq(ds, LAMBDA d : d.genre = genre)

(* 2. find({ published_year: { $gt: year } }) *)
FindAfterYear(ds) == SelectSeq(ds, LAMBDA d : d.published_year > year)

(* 3. find({ author }) *)
FindByAuthor(ds) == SelectSeq(ds, LAMBDA d : d.author = author)

(* updateOne that reports every matched document as modified *)
UpdateOneCountsMatch(ds) ==
  LET hits == {i \in 1..Len(ds) : ds[i].title = titleToUpdate}
  IN  IF hits = {}
      THEN [docs |-> ds, matchedCount |-> 0, modifiedCount |-> 0]
      ELSE [docs |-> [ds EXCEPT ![Min(hits)].price = newPrice],
            matchedCount |-> 1, modifiedCount |-> 1]

(* 4. updateOne({ title }, { $set: { price } }): the first match in natural
      order is written; it counts as modified only if its price changes *)
UpdateOne(ds) ==
  LET hits == {i \in 1..Len(ds) : ds[i].title = titleToUpdate}
  IN  IF hits = {}
      THEN [docs |-> ds, matchedCount |-> 0, modifiedCount |-> 0]
      ELSE LET i == Min(hits)
           IN  [docs |-> [ds EXCEPT ![i].price = newPrice],
                matchedCount |-> 1,
                modifiedCount |-> IF ds[i].price = newPrice THEN 0 ELSE 1]

UpdateLogged(r) == r.modifiedCount = 1

(* deleteOne that removes the first document of the collection once the
   filter has a match *)
DeleteOneHead(ds) ==
  LET hits == {i \in 1..Len(ds) : ds[i].title = titleToDelete}
  IN  IF hits = {}
      THEN [docs |-> ds, deletedCount |-> 0]
      ELSE [docs |-> Remove(ds, 1), deletedCount |-> 1]

(* 5. deleteOne({ title }): the first match in natural order is removed *)
DeleteOne(ds) ==
  LET hits == {i \in 1..Len(ds) : ds[i].title = titleToDelete}
  IN  IF hits = {}
      THEN [docs |-> ds, deletedCount |-> 0]
      ELSE [docs |-> Remove(ds, Min(hits)), deletedCount |-> 1]

DeleteLogged(r) == r.deletedCount = 1

(* 6. find({ in_stock: true, published_year: { $gt: 2010 } }) *)
FindAdvanced(ds) ==
  SelectSeq(ds, LAMBDA d : d.in_stock = TRUE /\ d.published_year > stockYear)

(* 7. find({}, { projection: { title: 1, author: 1, price: 1, _id: 0 } }) *)
Project(d) == [title |-> d.title, author |-> d.author, price |-> d.price]

FindProjected(ds) == [i \in 1..Len(ds) |-> Project(ds[i])]

(* 8, 9. find().sort({ price: dir }): the database promises no order among
         documents of equal price *)
SortByPrice(ds, dir) ==
  LET key == [i \in 1..Len(ds) |-> dir * ds[i].price]
  IN  {[j \in 1..Len(ds) |-> ds[p[j]]] : p \in AllSorted(1..Len(ds), key)}

SortAsc(ds) == SortByPrice(ds, 1)

SortDesc(ds) == SortByPrice(ds, -1)

(* 10. find().skip(pageSize * (pageNumber - 1)).limit(pageSize) *)
Skip(ds, n) == SubSeq(ds, n + 1, Len(ds))

Limit(ds, n) == SubSeq(ds, 1, IF Len(ds) < n THEN Len(ds) ELSE n)

(* pagination that takes the page number as zero-based *)
PaginateNextPage(ds) == Limit(Skip(ds, pageSize * pageNumber), pageSize)

Paginate(ds) == Limit(Skip(ds, pageSize * (pageNumber - 1)), pageSize)

(* 11. $group by genre with $avg of price, $sort avgPrice descending.  The
       average is kept as the exact fraction sum / n. *)
RECURSIVE SumPrice(_)
SumPrice(ds) == IF ds = <<>> THEN 0 ELSE Head(ds).price + SumPrice(Tail(ds))

GenreGroup(ds, g) ==
  LET members == SelectSeq(ds, LAMBDA d : d.genre = g)
  IN  [_id |-> g, avgPrice |-> [sum |-> SumPrice(members), n |-> Len(members)]]

AvgLess(a, b) == a.sum * b.n < b.sum * a.n

AvgPriceByGenre(ds) ==
  LET groups == {GenreGroup(ds, d.genre) : d \in Range(ds)}
      rank   == [x \in groups |->
                   Cardinality({y \in groups : AvgLess(x.avgPrice, y.avgPrice)})]
  IN  AllSorted(groups, rank)

(* 12. $group by author with $sum 1, $sort bookCount descending, $limit 1:
       any one of the authors with the largest count *)
AuthorGroup(ds, a) ==
  [_id |-> a, bookCount |-> Len(SelectSeq(ds, LAMBDA d : d.author = a))]

AuthorMostBooks(ds) ==
  LET groups == {AuthorGroup(ds, d.author) : d \in Range(ds)}
  IN  IF groups = {} THEN {<<>>}
      ELSE {<<x>> : x \in {y \in groups :
                             \A z \in groups : z.bookCount <= y.bookCount}}

(* 13. $group by $concat [$toString (year - year mod 10), "s"], $sum 1,
       $sort _id ascending (string comparison) *)
RECURSIVE ToString(_)
ToString(n) ==
  IF n < 10 THEN <<48 + n>> ELSE ToString(n \div 10) \o <<48 + (n % 10)>>

Concat(a, b) == a \o b

DecadeKey(y) == Concat(ToString(y - (y % decadeWidth)), <<115>>)

(* an order of the keys by the number they spell: shorter keys first *)
StrLessByLength(a, b) ==
  \/ Len(a) < Len(b)
  \/ /\ Len(a) = Len(b)
     /\ \E i \in 1..Len(a) :
          a[i] < b[i] /\ \A j \in 1..(i - 1) : a[j] = b[j]

(* binary string order: the first differing character decides, and a proper
   prefix comes first *)
RECURSIVE StrLess(_, _)
StrLess(a, b) ==
  IF b = <<>> THEN FALSE
  ELSE IF a = <<>> THEN TRUE
  ELSE IF Head(a) # Head(b) THEN Head(a) < Head(b)
  ELSE StrLess(Tail(a), Tail(b))

DecadeGroup(ds, k) ==
  [_id |-> k,
   count |-> Len(SelectSeq(ds, LAMBDA d : DecadeKey(d.published_year) = k))]

RECURSIVE SortById(_)
SortById(G) ==
  IF G = {} THEN <<>>
  ELSE LET m == CHOOSE x \in G : \A y \in G : x = y \/ StrLess(x._id, y._id)
       IN  <<m>> \o SortById(G \ {m})

BooksByDecade(ds) ==
  SortById({DecadeGroup(ds, DecadeKey(d.published_year)) : d \in Range(ds)})

(* 14, 15. createIndex: adds the index unless the collection has it *)
CreateIndex(ix, spec) == ix \cup {spec}

(* 16, 17. find(filter).explain("executionStats"): an equality query is
           answered from an index that starts with the queried fields, and
           otherwise by scanning the collection *)
ExecutionStats(ds, ix, spec, matches) ==
  IF spec \in ix
  THEN [stage |-> "IXSCAN", nReturned |-> Len(matches),
        totalKeysExamined |-> Len(matches), totalDocsExamined |-> Len(matches)]
  ELSE [stage |-> "COLLSCAN", nReturned |-> Len(matches),
        totalKeysExamined |-> 0, totalDocsExamined |-> Len(ds)]

ExplainTitle(ds, ix) ==
  ExecutionStats(ds, ix, TitleIndex,
                 SelectSeq(ds, LAMBDA d : d.title = titleToUpdate))

ExplainCompound(ds, ix) ==
  ExecutionStats(ds, ix, CompoundIndex,
                 SelectSeq(ds, LAMBDA d : d.author = author
                                          /\ d.published_year = explainYear))

----------------------------------------------------------------------------
(* runQueries *)

(* the database call of each operation, and the text of the line it logs *)
OpCall ==
  << "find genre", "find published_year $gt", "find author",
     "updateOne title", "deleteOne title",
     "find in_stock published_year $gt", "find projection",
     "find sort price 1", "find sort price -1", "find skip limit",
     "aggregate avgPrice by genre", "aggregate bookCount by author",
     "aggregate count by decade",
     "createIndex title", "createIndex author published_year",
     "find title explain", "find author published_year explain" >>

OpLine ==
  << "Books in genre", "Books published after", "Books by",
     "Updated price of", "Deleted",
     "Books in stock and published after 2010", "Projection",
     "Books sorted by price ascending", "Books sorted by price descending",
     "Page", "Average price by genre", "Author with most books",
     "Books grouped by decade",
     "Created index on title",
     "Created compound index on author and published_year",
     "Explain for query on title", "Explain for query on author" >>

Ops == 1..Len(OpCall)

Init ==
  /\ docs0 \in Collections
  /\ indexes0 \in IndexSets
  /\ docs = docs0
  /\ indexes = indexes0
  /\ pc = "connect"
  /\ next = 1
  /\ calls = <<>>
  /\ log = <<>>
  /\ res = <<>>
  /\ err = <<>>
  /\ hist = <<>>

(* await client.connect() resolves *)
Connect ==
  /\ pc = "connect"
  /\ calls' = Append(calls, "connect")
  /\ log' = Append(log, <<"Connected to MongoDB", <<>>>>)
  /\ pc' = "op"
  /\ UNCHANGED <<next, docs, indexes, docs0, indexes0, res, err, hist>>

(* a connect outside the try: its rejection ends the run at once *)
ConnectFailNoClose ==
  /\ pc = "connect"
  /\ calls' = Append(calls, "connect")
  /\ err' = <<"connect">>
  /\ pc' = "done"
  /\ UNCHANGED <<next, docs, indexes, docs0, indexes0, log, res, hist>>

(* await client.connect() rejects *)
ConnectFail ==
  /\ pc = "connect"
  /\ calls' = Append(calls, "connect")
  /\ err' = <<"connect">>
  /\ pc' = "catch"
  /\ UNCHANGED <<next, docs, indexes, docs0, indexes0, log, res, hist>>

(* operation k resolves with result r, the script logs lg, and the
   collection is left as ds with the indexes ix *)
OpStep(k, r, lg, ds, ix) ==
  /\ pc = "op"
  /\ next = k
  /\ calls' = Append(calls, OpCall[k])
  /\ res' = Append(res, r)
  /\ log' = Append(log, <<OpLine[k], lg>>)
  /\ docs' = ds
  /\ indexes' = ix
  /\ next' = k + 1
  /\ pc' = IF k = Len(OpCall) THEN "finally" ELSE "op"
  /\ UNCHANGED <<docs0, indexes0, err, hist>>

Op1 == LET r == FindByGenre(docs) IN OpStep(1, r, r, docs, indexes)

Op2 == LET r == FindAfterYear(docs) IN OpStep(2, r, r, docs, indexes)

Op3 == LET r == FindByAuthor(docs) IN OpStep(3, r, r, docs, indexes)

(* operation 4 that reports the update without writing it *)
Op4DryRun ==
  LET r == UpdateOne(docs)
  IN  OpStep(4, [matchedCount |-> r.matchedCount,
                 modifiedCount |-> r.modifiedCount],
             UpdateLogged(r), docs, indexes)

Op4 ==
  LET r == UpdateOne(docs)
  IN  OpStep(4, [matchedCount |-> r.matchedCount,
                 modifiedCount |-> r.modifiedCount],
             UpdateLogged(r), r.docs, indexes)

Op5 ==
  LET r == DeleteOne(docs)
  IN  OpStep(5, [deletedCount |-> r.deletedCount],
             DeleteLogged(r), r.docs, indexes)

Op6 == LET r == FindAdvanced(docs) IN OpStep(6, r, r, docs, indexes)

Op7 == LET r == FindProjected(docs) IN OpStep(7, r, r, docs, indexes)

(* operation 8 that leaves the collection in the sorted order *)
Op8InPlace == \E r \in SortAsc(docs) : OpStep(8, r, r, r, indexes)

Op8 == \E r \in SortAsc(docs) : OpStep(8, r, r, docs, indexes)

Op9 == \E r \in SortDesc(docs) : OpStep(9, r, r, docs, indexes)

Op10 == LET r == Paginate(docs) IN OpStep(10, r, r, docs, indexes)

Op11 == \E r \in AvgPriceByGenre(docs) : OpStep(11, r, r, docs, indexes)

Op12 == \E r \in AuthorMostBooks(docs) : OpStep(12, r, r, docs, indexes)

Op13 == LET r == BooksByDecade(docs) IN OpStep(13, r, r, docs, indexes)

Op14 ==
  OpStep(14, "title_1", <<>>, docs, CreateIndex(indexes, TitleIndex))

Op15 ==
  OpStep(15, "author_1_published_year_-1", <<>>, docs,
         CreateIndex(indexes, CompoundIndex))

(* operation 16 that explains against the indexes of before the run *)
Op16InitialIndexes ==
  LET r == ExplainTitle(docs, indexes0)
  IN  OpStep(16, [executionStats |-> r], r, docs, indexes)

Op16 ==
  LET r == ExplainTitle(docs, indexes)
  IN  OpStep(16, [executionStats |-> r], r, docs, indexes)

Op17 ==
  LET r == ExplainCompound(docs, indexes)
  IN  OpStep(17, [executionStats |-> r], r, docs, indexes)

(* what a write whose call rejects can leave behind: the error may reach the
   script before or after the server applied the write *)
FailedDocs(k, ds) ==
  IF k = 4 THEN {ds, UpdateOne(ds).docs}
  ELSE IF k = 5 THEN {ds, DeleteOne(ds).docs}
  ELSE {ds}

FailedIndexes(k, ix) ==
  IF k = 14 THEN {ix, CreateIndex(ix, TitleIndex)}
  ELSE IF k = 15 THEN {ix, CreateIndex(ix, CompoundIndex)}
  ELSE {ix}

(* a rejection caught per operation: the run goes on with the next one *)
OpFailResume ==
  \E k \in Ops :
    /\ pc = "op"
    /\ next = k
    /\ calls' = Append(calls, OpCall[k])
    /\ err' = <<OpCall[k]>>
    /\ docs' \in FailedDocs(k, docs)
    /\ indexes' \in FailedIndexes(k, indexes)
    /\ next' = k + 1
    /\ pc' = IF k = Len(OpCall) THEN "finally" ELSE "op"
    /\ UNCHANGED <<docs0, indexes0, log, res, hist>>

(* the awaited call of operation k rejects: control goes to the catch *)
OpFail ==
  \E k \in Ops :
    /\ pc = "op"
    /\ next = k
    /\ calls' = Append(calls, OpCall[k])
    /\ err' = <<OpCall[k]>>
    /\ docs' \in FailedDocs(k, docs)
    /\ indexes' \in FailedIndexes(k, indexes)
    /\ pc' = "catch"
    /\ UNCHANGED <<next, docs0, indexes0, log, res, hist>>

(* a catch that writes the initial documents back *)
CatchRollback ==
  /\ pc = "catch"
  /\ log' = Append(log, <<"Error:", err[1]>>)
  /\ docs' = docs0
  /\ pc' = "finally"
  /\ UNCHANGED <<next, indexes, docs0, indexes0, calls, res, err, hist>>

(* catch (err) { console.error('Error:', err) } *)
Catch ==
  /\ pc = "catch"
  /\ log' = Append(log, <<"Error:", err[1]>>)
  /\ pc' = "finally"
  /\ UNCHANGED <<next, docs, indexes, docs0, indexes0, calls, res, err, hist>>

(* finally { await client.close(); console.log('Connection closed') } *)
Close ==
  /\ pc = "finally"
  /\ calls' = Append(calls, "close")
  /\ log' = Append(log, <<"Connection closed", <<>>>>)
  /\ pc' = "done"
  /\ UNCHANGED <<next, docs, indexes, docs0, indexes0, res, err, hist>>

(* client.close() rejects: nothing guards it, runQueries() rejects *)
CloseFail ==
  /\ pc = "finally"
  /\ calls' = Append(calls, "close")
  /\ pc' = "rejected"
  /\ UNCHANGED <<next, docs, indexes, docs0, indexes0, log, res, err, hist>>

Next ==
  \/ Connect \/ ConnectFail
  \/ Op1 \/ Op2 \/ Op3 \/ Op4 \/ Op5 \/ Op6 \/ Op7 \/ Op8 \/ Op9
  \/ Op10 \/ Op11 \/ Op12 \/ Op13 \/ Op14 \/ Op15 \/ Op16 \/ Op17
  \/ OpFail \/ Catch \/ Close \/ CloseFail

Spec == Init /\ [][Next]_vars

----------------------------------------------------------------------------
(* Operation 4 and operation 5 run repeatedly on one collection *)

InitRepeat ==
  /\ docs0 \in Collections
  /\ indexes0 \in IndexSets
  /\ docs = docs0
  /\ indexes = indexes0
  /\ pc = "repeat"
  /\ next = 1
  /\ calls = <<>>
  /\ log = <<>>
  /\ res = <<>>
  /\ err = <<>>
  /\ hist = <<>>

RepeatUpdate ==
  /\ pc = "repeat"
  /\ Len(hist) < MaxRuns
  /\ LET r == UpdateOne(docs)
     IN  /\ docs' = r.docs
         /\ hist' = Append(hist, docs)
         /\ calls' = Append(calls, OpCall[4])
         /\ res' = Append(res, [matchedCount |-> r.matchedCount,
                                modifiedCount |-> r.modifiedCount])
         /\ log' = Append(log, <<OpLine[4], UpdateLogged(r)>>)
  /\ UNCHANGED <<pc, next, indexes, docs0, indexes0, err>>

RepeatDelete ==
  /\ pc = "repeat"
  /\ Len(hist) < MaxRuns
  /\ LET r == DeleteOne(docs)
     IN  /\ docs' = r.docs
         /\ hist' = Append(hist, docs)
         /\ calls' = Append(calls, OpCall[5])
         /\ res' = Append(res, [deletedCount |-> r.deletedCount])
         /\ log' = Append(log, <<OpLine[5], DeleteLogged(r)>>)
  /\ UNCHANGED <<pc, next, indexes, docs0, indexes0, err>>

SpecUpdate == InitRepeat /\ [][RepeatUpdate]_vars

SpecDelete == InitRepeat /\ [][RepeatDelete]_vars

----------------------------------------------------------------------------
(* Properties *)

Count(s, x) == Cardinality({i \in 1..Len(s) : s[i] = x})

ErrorLines == Cardinality({i \in 1..Len(log) : log[i][1] = "Error:"})

Ended == pc \in {"done", "rejected"}

(* the calls of a run in which connect and the operations 1..k were issued *)
CallsThrough(k) == <<"connect">> \o SubSeq(OpCall, 1, k)

(* C1: when connect or one of the operations 1-17 fails, no operation after
   it is issued, the catch logs the error exactly once, and close is then
   called *)
C1_FailureAborts ==
  err # <<>> =>
    LET issued == IF err[1] = "connect" THEN <<"connect">>
                  ELSE CallsThrough(Len(res) + 1)
    IN  /\ err[1] = issued[Len(issued)]
        /\ pc \in {"catch", "finally", "done", "rejected"}
        /\ calls = IF Ended THEN Append(issued, "close") ELSE issued
        /\ ErrorLines = IF pc = "catch" THEN 0 ELSE 1
        /\ Len(log) = Len(res) + ErrorLines
                        + (IF err[1] = "connect" THEN 0 ELSE 1)
                        + (IF pc = "done" THEN 1 ELSE 0)

C1_Witness ==
  /\ pc = "done"
  /\ err = <<OpCall[6]>>
  /\ calls = Append(CallsThrough(6), "close")
  /\ ErrorLines = 1

(* C2: on every path close is called exactly once, it is the last database
   call of the run, connect is the first and only connect, and a run that
   has ended has called close *)
C2_ClosedExactlyOnce ==
  /\ Count(calls, "close") <= 1
  /\ Count(calls, "connect") = IF pc = "connect" THEN 0 ELSE 1
  /\ calls # <<>> => calls[1] = "connect"
  /\ Count(calls, "close") = 1 <=> Ended
  /\ Ended => calls[Len(calls)] = "close"

C2_Witness ==
  /\ pc = "done"
  /\ err = <<"connect">>
  /\ calls = <<"connect", "close">>

C2_WitnessSuccess ==
  /\ pc = "done"
  /\ err = <<>>
  /\ Len(calls) = Len(OpCall) + 2

(* C3: from the collection holding "1984" at 10.00 and "Animal Farm" at
   8.00, a run that completes without error leaves exactly the document
   "1984", priced 15.99 and otherwise unchanged *)
Fixture == Window(1, 2)

C3_EndToEnd ==
  (pc = "done" /\ err = <<>> /\ docs0 = Fixture) =>
    /\ Len(docs) = 1
    /\ docs[1] = Book(1, "1984", "George Orwell", "Fiction", 1949, 1599, TRUE)
    /\ \A i \in 1..Len(docs) : docs[i].title # "Animal Farm"

C3_Witness ==
  /\ pc = "done"
  /\ err = <<>>
  /\ docs0 = Fixture
  /\ docs0[1].price = 1000 /\ docs0[2].price = 800
  /\ Len(res) = Len(OpCall)

(* C4: when an operation after 4 and 5, or close, fails, the run ends with
   the effects of 4 and 5 still applied to the collection *)
FirstTitled(ds, t) == Min({i \in 1..Len(ds) : ds[i].title = t})

HasTitle(ds, t) == \E i \in 1..Len(ds) : ds[i].title = t

C4_NoRollback ==
  (Ended /\ Len(res) >= 5 /\ (err # <<>> \/ pc = "rejected")) =>
    /\ res[4].matchedCount = 1 =>
         \E i \in 1..Len(docs) :
           /\ docs[i]._id = docs0[FirstTitled(docs0, "1984")]._id
           /\ docs[i].price = 1599
    /\ res[5].deletedCount = 1 =>
         /\ Len(docs) = Len(docs0) - 1
         /\ \A i \in 1..Len(docs) :
              docs[i]._id # docs0[FirstTitled(docs0, "Animal Farm")]._id

C4_Witness ==
  /\ pc = "done"
  /\ err = <<OpCall[11]>>
  /\ res[4].modifiedCount = 1
  /\ res[5].deletedCount = 1
  /\ docs # docs0

(* C5: operations 1-3, 6-13, 16 and 17 leave the documents and the indexes
   as they are; operation 4 changes at most the price field of documents,
   operation 5 only removes a document, operations 14 and 15 change only
   the index set *)
SamePriceAside(a, b) == [a EXCEPT !.price = b.price] = b

C5_Frame ==
  [][ /\ pc # "op" => (docs' = docs /\ indexes' = indexes)
      /\ pc = "op" =>
           /\ next \notin {4, 5, 14, 15} => (docs' = docs /\ indexes' = indexes)
           /\ next = 4 =>
                /\ indexes' = indexes
                /\ Len(docs') = Len(docs)
                /\ \A i \in 1..Len(docs) : SamePriceAside(docs'[i], docs[i])
           /\ next = 5 =>
                /\ indexes' = indexes
                /\ \/ docs' = docs
                   \/ \E i \in 1..Len(docs) : docs' = Remove(docs, i)
           /\ next \in {14, 15} => (docs' = docs /\ indexes \subseteq indexes')
    ]_vars

C5_Witness ==
  /\ pc = "done"
  /\ err = <<>>
  /\ Len(docs) = Len(docs0) - 1
  /\ \E i \in 1..Len(docs) : docs[i].price # docs0[i].price
  /\ indexes # indexes0

(* C6: on a collection with exactly one document titled "1984", priced other
   than 15.99, repeated runs of operation 4 leave the price at 15.99 after
   every run, report modifiedCount 1 on the first run and 0 afterwards, and
   log true exactly on the first; on any collection the logged value is
   true iff the run changed exactly one document *)
Titled(ds, t) == {i \in 1..Len(ds) : ds[i].title = t}

StateAfterRun(i) == IF i < Len(hist) THEN hist[i + 1] ELSE docs

ChangedBy(i) ==
  {j \in 1..Len(hist[i]) : StateAfterRun(i)[j] # hist[i][j]}

UpdatePre ==
  /\ Cardinality(Titled(docs0, "1984")) = 1
  /\ \A i \in Titled(docs0, "1984") : docs0[i].price # 1599

C6_UpdateIdempotent ==
  /\ UpdatePre =>
       \A i \in 1..Len(res) :
         /\ res[i].modifiedCount = IF i = 1 THEN 1 ELSE 0
         /\ log[i][2] = (i = 1)
         /\ \A j \in Titled(StateAfterRun(i), "1984") :
              StateAfterRun(i)[j].price = 1599
         /\ Titled(StateAfterRun(i), "1984") = Titled(docs0, "1984")
  /\ \A i \in 1..Len(res) :
       /\ log[i][2] = (Cardinality(ChangedBy(i)) = 1)
       /\ Len(StateAfterRun(i)) = Len(hist[i])

C6_Witness ==
  /\ UpdatePre
  /\ Len(res) = 2
  /\ res[1].modifiedCount = 1 /\ res[2].modifiedCount = 0
  /\ log[1][2] = TRUE /\ log[2][2] = FALSE

(* C7: on a collection with exactly one document titled "Animal Farm",
   repeated runs of operation 5 report deletedCount 1 on the first run and 0
   afterwards, no such document remains after any run, and on any collection
   the logged value is true iff the run removed exactly one document *)
DeletePre == Cardinality(Titled(docs0, "Animal Farm")) = 1

C7_DeleteIdempotent ==
  /\ DeletePre =>
       \A i \in 1..Len(res) :
         /\ res[i].deletedCount = IF i = 1 THEN 1 ELSE 0
         /\ log[i][2] = (i = 1)
         /\ Titled(StateAfterRun(i), "Animal Farm") = {}
  /\ \A i \in 1..Len(res) :
       /\ log[i][2] = (Len(hist[i]) - Len(StateAfterRun(i)) = 1)
       /\ \/ StateAfterRun(i) = hist[i]
          \/ \E j \in 1..Len(hist[i]) : StateAfterRun(i) = Remove(hist[i], j)

C7_Witness ==
  /\ DeletePre
  /\ Len(res) = 2
  /\ res[1].deletedCount = 1 /\ res[2].deletedCount = 0
  /\ Len(docs) = Len(docs0) - 1

(* the results operation k can return on the collection ds with indexes ix *)
OpResults(k, ds, ix) ==
  CASE k = 1  -> {FindByGenre(ds)}
    [] k = 2  -> {FindAfterYear(ds)}
    [] k = 3  -> {FindByAuthor(ds)}
    [] k = 4  -> {[matchedCount |-> UpdateOne(ds).matchedCount,
                   modifiedCount |-> UpdateOne(ds).modifiedCount]}
    [] k = 5  -> {[deletedCount |-> DeleteOne(ds).deletedCount]}
    [] k = 6  -> {FindAdvanced(ds)}
    [] k = 7  -> {FindProjected(ds)}
    [] k = 8  -> SortAsc(ds)
    [] k = 9  -> SortDesc(ds)
    [] k = 10 -> {Paginate(ds)}
    [] k = 11 -> AvgPriceByGenre(ds)
    [] k = 12 -> AuthorMostBooks(ds)
    [] k = 13 -> {BooksByDecade(ds)}
    [] k = 14 -> {"title_1"}
    [] k = 15 -> {"author_1_published_year_-1"}
    [] k = 16 -> {[executionStats |-> ExplainTitle(ds, ix)]}
    [] k = 17 -> {[executionStats |-> ExplainCompound(ds, ix)]}

(* the collection and the indexes as the writes before operation k leave
   them *)
DocsBefore(k) ==
  IF k <= 4 THEN docs0
  ELSE IF k = 5 THEN UpdateOne(docs0).docs
  ELSE DeleteOne(UpdateOne(docs0).docs).docs

IndexesBefore(k) ==
  IF k <= 14 THEN indexes0
  ELSE IF k = 15 THEN indexes0 \cup {TitleIndex}
  ELSE indexes0 \cup {TitleIndex, CompoundIndex}

(* C8 as stated: every operation returns what it would return had none of
   the operations before it run, that is, on the initial collection and
   indexes *)
C8_IndependentOfEarlierOps ==
  \A k \in 1..Len(res) : res[k] \in OpResults(k, docs0, indexes0)

(* C8 amended: every operation returns a result of the collection and index
   set as the earlier writes 4, 5, 14 and 15 left them; operations 1-5 and
   14-15 return what they would return on the initial collection *)
C8_DependsOnlyOnWrittenState ==
  \A k \in 1..Len(res) :
    /\ res[k] \in OpResults(k, DocsBefore(k), IndexesBefore(k))
    /\ k \in (1..5) \cup {14, 15} => res[k] \in OpResults(k, docs0, indexes0)

C8_Witness ==
  /\ pc = "done"
  /\ err = <<>>
  /\ res[4].modifiedCount = 1
  /\ res[5].deletedCount = 1
  /\ res[7] # FindProjected(docs0)
  /\ res[13] # BooksByDecade(docs0)
  /\ res[16] # [executionStats |-> ExplainTitle(docs0, indexes0)]

(* C9: operation 10 returns the documents at zero-based offsets
   5..min(9, n-1) of the n documents in natural order, none when n <= 5 *)
C9_Pagination ==
  Len(res) >= 10 =>
    LET n    == Len(docs)
        last == IF n - 1 < 9 THEN n - 1 ELSE 9
        size == IF last < 5 THEN 0 ELSE last - 5 + 1
    IN  /\ Len(res[10]) = size
        /\ \A j \in 1..size : res[10][j] = docs[5 + j]
        /\ n = 12 => res[10] = <<docs[6], docs[7], docs[8], docs[9], docs[10]>>
        /\ n <= 5 => res[10] = <<>>

C9_Witness ==
  /\ Len(res) >= 10
  /\ Len(docs) = 12
  /\ Len(res[10]) = 5
  /\ res[10][1] = docs[6] /\ res[10][5] = docs[10]

C9_WitnessShort ==
  /\ Len(res) >= 10
  /\ Len(docs) = 8
  /\ Len(res[10]) = 3

(* C10: operation 13 groups every document under the decimal digits of
   published_year - (published_year mod 10) followed by "s", counts each
   decade's documents, the counts sum to the number of documents, and the
   groups come in ascending string order of the key *)
RECURSIVE NumOf(_)
NumOf(digits) ==
  IF digits = <<>> THEN 0
  ELSE NumOf(SubSeq(digits, 1, Len(digits) - 1)) * 10
         + (digits[Len(digits)] - 48)

DecadeOf(key) == NumOf(SubSeq(key, 1, Len(key) - 1))

RECURSIVE SumCount(_)
SumCount(groups) ==
  IF groups = <<>> THEN 0 ELSE Head(groups).count + SumCount(Tail(groups))

LexBefore(a, b) ==
  \E i \in 1..Len(b) :
    /\ \A j \in 1..(i - 1) : j <= Len(a) /\ a[j] = b[j]
    /\ \/ i = Len(a) + 1
       \/ i <= Len(a) /\ a[i] < b[i]

C10_DecadeGroups ==
  Len(res) >= 13 =>
    LET groups == res[13]
    IN  /\ \A g \in 1..Len(groups) :
             LET key == groups[g]._id
             IN  /\ key[Len(key)] = 115
                 /\ \A c \in 1..(Len(key) - 1) : key[c] \in 48..57
                 /\ DecadeOf(key) % 10 = 0
                 /\ groups[g].count =
                      Cardinality({i \in 1..Len(docs) :
                         /\ DecadeOf(key) <= docs[i].published_year
                         /\ docs[i].published_year <= DecadeOf(key) + 9})
                 /\ groups[g].count > 0
        /\ \A i \in 1..Len(docs) :
             \E g \in 1..Len(groups) :
               docs[i].published_year - (docs[i].published_year % 10)
                 = DecadeOf(groups[g]._id)
        /\ \A i \in 1..Len(docs) :
             /\ docs[i].published_year = 1949 =>
                  \E g \in 1..Len(groups) :
                    groups[g]._id = <<49, 57, 52, 48, 115>>
             /\ docs[i].published_year = 1950 =>
                  \E g \in 1..Len(groups) :
                    groups[g]._id = <<49, 57, 53, 48, 115>>
        /\ SumCount(groups) = Len(docs)
        /\ \A g, h \in 1..Len(groups) :
             g < h => LexBefore(groups[g]._id, groups[h]._id)

(* a run in which the string order of the keys differs from the numeric
   order of the decades, with documents of 1949 and 1950 *)
C10_Witness ==
  /\ Len(res) >= 13
  /\ \E i, j \in 1..Len(docs) :
       docs[i].published_year = 1949 /\ docs[j].published_year = 1950
  /\ \E g, h \in 1..Len(res[13]) :
       /\ g < h
       /\ DecadeOf(res[13][g]._id) > DecadeOf(res[13][h]._id)
  /\ \E g \in 1..Len(res[13]) : res[13][g].count > 1

====
